---- MODULE Spec2Model ----
(***************************************************************************)
(* A model of the storefront of the ticketing platform: the persisted      *)
(* checkout store (frontend/stores/checkout-store.ts), the event page, the *)
(* checkout page, the promo input, the api client's handleResponse and the *)
(* token-protected event admin page.                                       *)
(*                                                                         *)
(* Four specifications share the variables:                                *)
(*   StoreSpec  the store's actions called with arbitrary arguments;       *)
(*   Spec       the application: pages, clicks, requests in flight;        *)
(*   ApiSpec    handleResponse applied to a bounded set of responses;      *)
(*   AdminSpec  the admin page and its dashboard query.                    *)
(* A specification leaves the variables of the others at their initial     *)
(* values.                                                                 *)
(***************************************************************************)
EXTENDS Integers, Sequences, FiniteSets, TLC

VARIABLES
    \* ---- checkout store (CheckoutState) ----
    event,            \* EventDetail | null
    selectedTier,     \* TicketTier | null
    quantity,         \* number
    promoCode,        \* string | null (NoCode)
    promoValidation,  \* PromoValidationResponse | null
    buyerInfo,        \* BuyerInfo
    \* ---- history ----
    lastCall,         \* StoreSpec: the store action last called, with selectTier's argument
    lastClick,        \* Spec: the tier card the step clicked on (Null: the step was no click)
    \* ---- application ----
    page,             \* the route shown: [name, id, url]
    mounted,          \* CheckoutPageInner's mounted state
    queryData,        \* react-query cache of useEvent: event id -> EventDetail | null
    queryError,       \* event ids whose query is in the error state
    promoInFlight,    \* promo validation requests awaiting their response
    purchases,        \* purchase requests awaiting their response, by the page that posted
    posted,           \* history: the purchase request the step posted (Null: it posted none)
    handler,          \* the continuation of the checkout page's handleSubmit
    \* ---- api client ----
    apiResponse,      \* the Response handed to handleResponse
    apiOutcome,       \* what handleResponse did with it
    \* ---- admin page ----
    adminUrl,         \* [eventId, token] of /events/{id}/admin?token=...
    adminCache,       \* react-query cache of useAdminDashboard, by [eventId, token]
    adminRequests     \* every request issued to the admin data endpoint

storeVars == <<event, selectedTier, quantity, promoCode, promoValidation, buyerInfo>>
appVars   == <<page, mounted, queryData, queryError, promoInFlight, purchases,
               posted, handler>>
apiVars   == <<apiResponse, apiOutcome>>
adminVars == <<adminUrl, adminCache, adminRequests>>
vars      == <<storeVars, lastCall, lastClick, appVars, apiVars, adminVars>>

\* JavaScript's null (and undefined): a record no program value equals.
Null == [null |-> TRUE]
\* null where the other values are strings (promoCode, a promo result's code).
NoCode == "null"

Min(a, b) == IF a < b THEN a ELSE b
Max(a, b) == IF a > b THEN a ELSE b

(***************************************************************************)
(* Program constants and bounds.                                           *)
(***************************************************************************)
STRIPE_MINIMUM_CENTS == 50
MaxPerOrder == 10

\* Largest tickets_remaining a tier of StoreSpec holds; above MaxPerOrder.
MaxRemaining == 12
\* setQuantity is called with MinInputQuantity .. MaxInputQuantity.
MaxInputQuantity == 12
\* Largest tickets_remaining the server reports in Spec.
MaxServerRemaining == 2
\* Promo validations, and purchases, awaiting their response at a time in Spec.
MaxInFlight == 1

(***************************************************************************)
(* Data: types/api.ts.                                                     *)
(***************************************************************************)
TicketTierStatus == {"ACTIVE", "SOLD_OUT"}

Tier(id, eventId, price, remaining, status) ==
    [id |-> id, event_id |-> eventId, price |-> price,
     tickets_remaining |-> remaining, status |-> status]

EventDetail(id, tiers) == [id |-> id, ticket_tiers |-> tiers]

\* A PromoValidationResponse. forTier is history: the ticket_tier_id of the
\* request this is the response to (the response itself does not carry it).
PromoResult(valid, code, amount, tierId) ==
    [valid |-> valid, code |-> code, discount_amount_cents |-> amount,
     message |-> IF valid THEN "Promo code applied" ELSE "Invalid promo code",
     forTier |-> tierId]

initialBuyerInfo == [name |-> "", email |-> "", phone |-> ""]

FormData == [name |-> "Ann", email |-> "ann@example.com", phone |-> "555"]

(***************************************************************************)
(* The checkout store: frontend/stores/checkout-store.ts.                  *)
(* Each action is an action on storeVars; the computed values are state    *)
(* functions.                                                              *)
(***************************************************************************)
StoreInit ==
    /\ event = Null
    /\ selectedTier = Null
    /\ quantity = 1
    /\ promoCode = NoCode
    /\ promoValidation = Null
    /\ buyerInfo = initialBuyerInfo

setEvent(e) ==
    /\ event' = e
    /\ UNCHANGED <<selectedTier, quantity, promoCode, promoValidation, buyerInfo>>

selectTier_KeepsQuantity(tier) ==
    /\ selectedTier' = tier
    /\ promoCode' = NoCode
    /\ promoValidation' = Null
    /\ UNCHANGED <<event, quantity, buyerInfo>>

selectTier(tier) ==
    /\ selectedTier' = tier
    /\ quantity' = 1
    /\ promoCode' = NoCode
    /\ promoValidation' = Null
    /\ UNCHANGED <<event, buyerInfo>>

setQuantity(q) ==
    /\ IF selectedTier = Null
         THEN quantity' = quantity
         ELSE LET maxQuantity == Min(selectedTier.tickets_remaining, MaxPerOrder)
                  clampedQuantity == Max(1, Min(q, maxQuantity))
              IN  quantity' = clampedQuantity
    /\ UNCHANGED <<event, selectedTier, promoCode, promoValidation, buyerInfo>>

incrementQuantity_OffByOne ==
    /\ IF selectedTier = Null
         THEN quantity' = quantity
         ELSE LET maxQuantity == Min(selectedTier.tickets_remaining, MaxPerOrder)
              IN  quantity' = IF quantity <= maxQuantity THEN quantity + 1 ELSE quantity
    /\ UNCHANGED <<event, selectedTier, promoCode, promoValidation, buyerInfo>>

incrementQuantity ==
    /\ IF selectedTier = Null
         THEN quantity' = quantity
         ELSE LET maxQuantity == Min(selectedTier.tickets_remaining, MaxPerOrder)
              IN  quantity' = IF quantity < maxQuantity THEN quantity + 1 ELSE quantity
    /\ UNCHANGED <<event, selectedTier, promoCode, promoValidation, buyerInfo>>

decrementQuantity ==
    /\ quantity' = IF quantity > 1 THEN quantity - 1 ELSE quantity
    /\ UNCHANGED <<event, selectedTier, promoCode, promoValidation, buyerInfo>>

setPromoCode(code) ==
    /\ promoCode' = code
    /\ UNCHANGED <<event, selectedTier, quantity, promoValidation, buyerInfo>>

setPromoValidation(validation) ==
    /\ promoValidation' = validation
    /\ UNCHANGED <<event, selectedTier, quantity, promoCode, buyerInfo>>

\* { ...state.buyerInfo, ...info }: the fields info has replace the state's.
setBuyerInfo(info) ==
    /\ buyerInfo' = [f \in DOMAIN buyerInfo |->
                        IF f \in DOMAIN info THEN info[f] ELSE buyerInfo[f]]
    /\ UNCHANGED <<event, selectedTier, quantity, promoCode, promoValidation>>

clearCheckout_KeepsBuyerInfo ==
    /\ event' = Null
    /\ selectedTier' = Null
    /\ quantity' = 1
    /\ promoCode' = NoCode
    /\ promoValidation' = Null
    /\ UNCHANGED buyerInfo

clearCheckout ==
    /\ event' = Null
    /\ selectedTier' = Null
    /\ quantity' = 1
    /\ promoCode' = NoCode
    /\ promoValidation' = Null
    /\ buyerInfo' = initialBuyerInfo

getSubtotal ==
    IF selectedTier = Null THEN 0 ELSE selectedTier.price * quantity

\* !promoValidation?.valid: null and an invalid result both give 0.
getDiscount ==
    IF promoValidation = Null \/ ~promoValidation.valid
      THEN 0
      ELSE promoValidation.discount_amount_cents * quantity

getTotal_NoMinimum ==
    Max(0, getSubtotal - getDiscount)

getTotal ==
    LET subtotal == getSubtotal
        discount == getDiscount
        rawTotal == Max(0, subtotal - discount)
    IN  IF rawTotal > 0 /\ rawTotal < STRIPE_MINIMUM_CENTS THEN 0 ELSE rawTotal

(***************************************************************************)
(* PriceSummary: frontend/components/tickets/price-summary.tsx, with the   *)
(* props the event page gives it.                                          *)
(***************************************************************************)
PriceSummaryTotal(unitPrice, qty, discount) ==
    LET subtotal == unitPrice * qty
        rawTotal == Max(0, subtotal - discount)
    IN  IF rawTotal > 0 /\ rawTotal < STRIPE_MINIMUM_CENTS THEN 0 ELSE rawTotal

\* <PriceSummary unitPrice={selectedTier.price} quantity={quantity} discount={getDiscount()} />
EventPagePriceSummary ==
    PriceSummaryTotal(selectedTier.price, quantity, getDiscount)

\* The event page's maxQuantity, which QuantityPicker shows as "(max N)".
maxQuantity ==
    IF selectedTier # Null
      THEN Min(selectedTier.tickets_remaining, MaxPerOrder)
      ELSE MaxPerOrder

\* QuantityPicker's buttons.
canDecrement == quantity > 1
canIncrement == quantity < maxQuantity

(***************************************************************************)
(* Initial values of the application, the api client and the admin page.   *)
(***************************************************************************)
EventIds == {1, 2}

\* The routes: /events, /events/{id}, /checkout, /success?tickets=..., and
\* Stripe's checkout page, which is outside the application.
EventsPage == [name |-> "events", id |-> 0, url |-> "/events"]
EventPage(e) == [name |-> "event", id |-> e, url |-> "/events/" \o ToString(e)]
CheckoutPage == [name |-> "checkout", id |-> 0, url |-> "/checkout"]
ExternalPage(url) == [name |-> "external", id |-> 0, url |-> url]

NoneInFlight == [p \in {"event", "checkout"} |-> 0]

AppInit ==
    /\ lastClick = Null
    /\ page = EventsPage
    /\ mounted = FALSE
    /\ queryData = [e \in EventIds |-> Null]
    /\ queryError = {}
    /\ promoInFlight = {}
    /\ purchases = NoneInFlight
    /\ posted = Null
    /\ handler = [pc |-> "idle"]

ApiIdle ==
    /\ apiResponse = Null
    /\ apiOutcome = Null

AdminTokens == {"", "tokA", "tokB"}
AdminEventIds == {0, 1}
AdminKeys == [eventId : AdminEventIds, token : AdminTokens]

\* A query nothing has fetched yet.
NoQuery == [data |-> Null, error |-> FALSE, fetching |-> FALSE]

AdminInit ==
    /\ adminUrl = [eventId |-> 0, token |-> ""]
    /\ adminCache = [k \in AdminKeys |-> NoQuery]
    /\ adminRequests = {}

(***************************************************************************)
(* StoreSpec: the store's actions, called in any order with any argument   *)
(* of the bounded input sets.                                              *)
(***************************************************************************)
Prices == {0, 30, 60}
StoreRemainings == {0, 1, 3, MaxRemaining}
StoreTiers == {Tier(11, 1, p, r, "ACTIVE") : p \in Prices, r \in StoreRemainings}
StoreEvents == {EventDetail(1, <<>>), EventDetail(2, <<>>)}
StorePromos == {Null, PromoResult(FALSE, NoCode, 10, 11),
                PromoResult(TRUE, "SAVE", 10, 11), PromoResult(TRUE, "SAVE", 70, 11)}
InputQuantities == -1 .. MaxInputQuantity
PartialInfos == {[name |-> "Ann"], FormData}

Called(op) == lastCall' = [op |-> op]

StoreRest == UNCHANGED <<lastClick, appVars, apiVars, adminVars>>

CallSetEvent ==
    \E e \in StoreEvents : setEvent(e) /\ Called("setEvent") /\ StoreRest

CallSelectTier ==
    \E t \in StoreTiers \cup {Null} :
        selectTier(t) /\ lastCall' = [op |-> "selectTier", arg |-> t] /\ StoreRest

CallSetQuantity ==
    \E q \in InputQuantities : setQuantity(q) /\ Called("setQuantity") /\ StoreRest

CallIncrementQuantity == incrementQuantity /\ Called("incrementQuantity") /\ StoreRest

CallDecrementQuantity == decrementQuantity /\ Called("decrementQuantity") /\ StoreRest

CallSetPromoCode ==
    \E c \in {NoCode, "SAVE"} : setPromoCode(c) /\ Called("setPromoCode") /\ StoreRest

CallSetPromoValidation ==
    \E v \in StorePromos :
        setPromoValidation(v) /\ Called("setPromoValidation") /\ StoreRest

CallSetBuyerInfo ==
    \E i \in PartialInfos : setBuyerInfo(i) /\ Called("setBuyerInfo") /\ StoreRest

CallClearCheckout == clearCheckout /\ Called("clearCheckout") /\ StoreRest

StoreNext ==
    \/ CallSetEvent
    \/ CallSelectTier
    \/ CallSetQuantity
    \/ CallIncrementQuantity
    \/ CallDecrementQuantity
    \/ CallSetPromoCode
    \/ CallSetPromoValidation
    \/ CallSetBuyerInfo
    \/ CallClearCheckout

StoreSpecInit ==
    /\ StoreInit
    /\ lastCall = [op |-> "create"]
    /\ AppInit
    /\ ApiIdle
    /\ AdminInit

StoreSpec == StoreSpecInit /\ [][StoreNext]_vars

(***************************************************************************)
(* Claims about the store.                                                 *)
(***************************************************************************)
\* The amount before the Stripe-minimum rule.
RawTotal == Max(0, getSubtotal - getDiscount)

\* C1: getTotal() is max(0, subtotal - discount), except that an amount
\* strictly between 0 and 50 cents becomes 0, so it is never in 1..49; and
\* PriceSummary, with the props the event page gives it, shows the same total.
C1_StripeMinimum ==
    /\ getTotal = (IF RawTotal \in 1 .. 49 THEN 0 ELSE RawTotal)
    /\ getTotal \notin 1 .. 49
    /\ selectedTier # Null => EventPagePriceSummary = getTotal

\* A promo brought a paid order under the minimum, and one left it at exactly
\* the minimum is told apart by the bounds (60 - 10 = 50).
C1_Witness ==
    /\ selectedTier # Null
    /\ promoValidation # Null
    /\ promoValidation.valid
    /\ RawTotal \in 1 .. 49
    /\ getTotal = 0
    /\ lastCall.op = "setPromoValidation"

\* C2: 1 <= quantity <= 10 always, and with a tier that has tickets left
\* selected, quantity <= min(tickets_remaining, 10), the "(max N)" shown.
C2_QuantityBound ==
    /\ quantity \in 1 .. 10
    /\ (selectedTier # Null /\ selectedTier.tickets_remaining >= 1) =>
          /\ quantity <= Min(selectedTier.tickets_remaining, 10)
          /\ quantity <= maxQuantity

\* The quantity stands at the maximum of a tier with 3 tickets left, after an
\* increment that was refused.
C2_Witness ==
    /\ selectedTier # Null
    /\ selectedTier.tickets_remaining = 3
    /\ quantity = 3
    /\ lastCall.op = "incrementQuantity"

\* C10: selectTier(tier) sets selectedTier to tier, quantity to 1, promoCode
\* and promoValidation to null, and leaves event and buyerInfo as they were.
C10_SelectTierFrame ==
    [][lastCall'.op = "selectTier" =>
          /\ selectedTier' = lastCall'.arg
          /\ quantity' = 1
          /\ promoCode' = NoCode
          /\ promoValidation' = Null
          /\ event' = event
          /\ buyerInfo' = buyerInfo]_vars

\* selectTier(null) was called on a store that held an event, a buyer, a
\* quantity above 1 before and now holds none of the selection.
C10_Witness ==
    /\ lastCall.op = "selectTier"
    /\ lastCall.arg = Null
    /\ selectedTier = Null
    /\ event # Null
    /\ buyerInfo # initialBuyerInfo

(***************************************************************************)
(* The api client: frontend/lib/api.ts, handleResponse.                    *)
(* A JSON value is a record [t, ...]; undefined is a missing property.     *)
(***************************************************************************)
Undefined == [t |-> "undefined"]
JsonNull == [t |-> "null"]
Str(s) == [t |-> "string", v |-> s]
\* FastAPI's body of a 422: detail is a list of error objects.
ErrorList == [t |-> "array"]
Obj(detail, message) == [t |-> "object", detail |-> detail, message |-> message]

\* The body of a Response: its text is no JSON, or the JSON value it parses to.
NotJson == [t |-> "not json"]

\* response.ok
Ok(status) == status \in 200 .. 299

\* value.name, for a value that is neither null nor undefined.
Prop(value, name) ==
    IF value.t = "object" THEN value[name] ELSE Undefined

\* JavaScript's truthiness, the test of ||.
Truthy(value) ==
    CASE value.t = "string" -> value.v # ""
      [] value.t \in {"array", "object"} -> TRUE
      [] OTHER -> FALSE

\* a || b
Or(a, b) == IF Truthy(a) THEN a ELSE b

\* String(value), which Error's constructor applies to its message.
JsString(value) ==
    CASE value.t = "string" -> value.v
      [] value.t = "array" -> "[object Object]"
      [] value.t = "object" -> "[object Object]"
      [] value.t = "null" -> "null"
      [] OTHER -> ""

ApiError(status, message) ==
    [kind |-> "throw", name |-> "ApiError", status |-> status,
     message |-> JsString(message)]

Throw(name) == [kind |-> "throw", name |-> name]

handleResponse(response) ==
    IF ~Ok(response.status)
      THEN LET error == IF response.body = NotJson
                          THEN Obj(Str("An error occurred"), Undefined)
                          ELSE response.body
           IN  IF error = JsonNull
                 THEN Throw("TypeError")   \* error.detail of null
                 ELSE ApiError(response.status,
                               Or(Or(Prop(error, "detail"), Prop(error, "message")),
                                  Str("An error occurred")))
      ELSE IF response.body = NotJson
             THEN Throw("SyntaxError")
             ELSE [kind |-> "return", value |-> response.body]

(***************************************************************************)
(* ApiSpec: handleResponse on each response of a bounded set.              *)
(***************************************************************************)
Statuses == {200, 400, 404, 422, 500}
Details == {Undefined, Str(""), Str("Sold out"), ErrorList}
Messages == {Undefined, Str(""), Str("Bad request")}
Bodies == {NotJson, JsonNull, Str("oops")} \cup
          {Obj(dt, m) : dt \in Details, m \in Messages}
Responses == [status : Statuses, body : Bodies]

ApiRest == UNCHANGED <<storeVars, lastCall, lastClick, appVars, adminVars>>

\* fetch() resolves with a response.
Fetch ==
    /\ apiOutcome # Null
    /\ apiResponse' \in Responses
    /\ apiOutcome' = Null
    /\ ApiRest

HandleResponse ==
    /\ apiOutcome = Null
    /\ apiOutcome' = handleResponse(apiResponse)
    /\ UNCHANGED apiResponse
    /\ ApiRest

ApiNext == Fetch \/ HandleResponse

ApiInit ==
    /\ StoreInit
    /\ lastCall = [op |-> "create"]
    /\ AppInit
    /\ apiResponse \in Responses
    /\ apiOutcome = Null
    /\ AdminInit

ApiSpec == ApiInit /\ [][ApiNext]_vars

\* The message the claim gives a non-OK response: the body's detail, else its
\* message, else "An error occurred" (also for a body that is no JSON).
C7_Message(body) ==
    IF body.t # "object" THEN Str("An error occurred")
    ELSE IF Truthy(body.detail) THEN body.detail
    ELSE IF Truthy(body.message) THEN body.message
    ELSE Str("An error occurred")

\* C7: for a non-OK response handleResponse throws an ApiError with the
\* response's status and the message detail, else message, else "An error
\* occurred"; it never returns a value.
C7_ErrorContract ==
    (apiOutcome # Null /\ ~Ok(apiResponse.status)) =>
        /\ apiOutcome.kind = "throw"
        /\ apiOutcome.name = "ApiError"
        /\ apiOutcome.status = apiResponse.status
        /\ Str(apiOutcome.message) = C7_Message(apiResponse.body)

(***************************************************************************)
(* The event admin page: frontend/app/events/[id]/admin/page.tsx, and its  *)
(* query useAdminDashboard (lib/queries.ts). The token's validity is the   *)
(* server's to decide: a fetch with any token may succeed or fail.         *)
(***************************************************************************)
\* enabled: !!eventId && !!token
AdminEnabled_NoTokenCheck(eventId, token) == eventId # 0

AdminEnabled(eventId, token) == eventId # 0 /\ token # ""

\* The query the page reads: the cache entry of its own key.
AdminQuery == adminCache[adminUrl]

\* isLoading: a first fetch is in flight (no data yet).
AdminIsLoading == AdminQuery.fetching /\ AdminQuery.data = Null

\* What EventAdminPage returns.
AdminView ==
    IF adminUrl.token = "" THEN "Access Denied"
    ELSE IF AdminIsLoading THEN "loading"
    ELSE IF AdminQuery.error \/ AdminQuery.data = Null THEN "Unable to Load Dashboard"
    ELSE "dashboard"

AdminRest == UNCHANGED <<storeVars, lastCall, lastClick, appVars, apiVars>>

\* The browser opens /events/{eventId}/admin?token={token}.
AdminVisit ==
    \E k \in AdminKeys :
        /\ adminUrl' = k
        /\ UNCHANGED <<adminCache, adminRequests>>
        /\ AdminRest

\* The query of the page's key fetches: on mount, every 30 s, and when a
\* mutation invalidates it. api.admin.getData(eventId, token) is requested.
AdminFetchStart ==
    /\ AdminEnabled(adminUrl.eventId, adminUrl.token)
    /\ ~AdminQuery.fetching
    /\ adminCache' = [adminCache EXCEPT ![adminUrl] =
                        [data |-> @.data, fetching |-> TRUE,
                         error |-> IF @.data = Null THEN FALSE ELSE @.error]]
    /\ adminRequests' = adminRequests \cup {adminUrl}
    /\ UNCHANGED adminUrl
    /\ AdminRest

\* The server answers a request with the dashboard data.
AdminFetchSuccess ==
    \E k \in AdminKeys :
        /\ adminCache[k].fetching
        /\ adminCache' = [adminCache EXCEPT ![k] =
                            [data |-> [eventId |-> k.eventId, token |-> k.token],
                             error |-> FALSE, fetching |-> FALSE]]
        /\ UNCHANGED <<adminUrl, adminRequests>>
        /\ AdminRest

\* The server refuses a request (an invalid or expired token), or it fails.
AdminFetchError ==
    \E k \in AdminKeys :
        /\ adminCache[k].fetching
        /\ adminCache' = [adminCache EXCEPT ![k] =
                            [data |-> @.data, error |-> TRUE, fetching |-> FALSE]]
        /\ UNCHANGED <<adminUrl, adminRequests>>
        /\ AdminRest

AdminNext ==
    \/ AdminVisit
    \/ AdminFetchStart
    \/ AdminFetchSuccess
    \/ AdminFetchError

AdminSpecInit ==
    /\ StoreInit
    /\ lastCall = [op |-> "create"]
    /\ AppInit
    /\ ApiIdle
    /\ AdminInit

AdminSpec == AdminSpecInit /\ [][AdminNext]_vars

\* C3: without a token the page shows "Access Denied" and no request to the
\* admin data endpoint is ever issued for it; the dashboard is rendered only
\* with a token and data that a request made with that token loaded.
C3_AdminTokenProtected ==
    /\ adminUrl.token = "" => AdminView = "Access Denied"
    /\ \A r \in adminRequests : r.token # ""
    /\ AdminView = "dashboard" =>
          /\ adminUrl.token # ""
          /\ adminUrl \in adminRequests
          /\ AdminQuery.data # Null
          /\ AdminQuery.data.token = adminUrl.token
          /\ AdminQuery.data.eventId = adminUrl.eventId
          /\ ~AdminQuery.error

\* The page is opened without a token after a dashboard was loaded with one.
C3_Witness ==
    /\ adminUrl.token = ""
    /\ adminUrl.eventId # 0
    /\ AdminView = "Access Denied"
    /\ \E k \in AdminKeys : adminCache[k].data # Null

(***************************************************************************)
(* Spec: the application. What the server may answer.                      *)
(***************************************************************************)
\* Event 1 sells tiers 11 and 12, event 2 sells tier 21.
TierIdsOf(e) == IF e = 1 THEN <<11, 12>> ELSE <<21>>
TierEvent(tierId) == IF tierId \in {11, 12} THEN 1 ELSE 2

\* The states the server may report a tier in. Tier 11 is ACTIVE with every
\* count from 0 to MaxServerRemaining, or SOLD_OUT (with a count that alone
\* would not disable its card); the other tiers stay available.
ServerTiers(tierId) ==
    IF tierId = 11
      THEN {Tier(11, 1, 30, r, "ACTIVE") : r \in 0 .. MaxServerRemaining}
             \cup {Tier(11, 1, 30, MaxServerRemaining, "SOLD_OUT")}
      ELSE {Tier(tierId, TierEvent(tierId), 30, MaxServerRemaining, "ACTIVE")}

AllServerTiers == UNION {ServerTiers(t) : t \in {11, 12, 21}}

\* The bodies GET /api/events/{e} may have.
ServerEvents(e) ==
    {EventDetail(e, ts) :
        ts \in {f \in [1 .. Len(TierIdsOf(e)) -> AllServerTiers] :
                   \A i \in 1 .. Len(TierIdsOf(e)) : f[i] \in ServerTiers(TierIdsOf(e)[i])}}

\* The tickets of a purchase response.
Ticket(id) == [id |-> id, qr_token |-> "qr"]
TicketArray(items) == [t |-> "array", items |-> items]
SampleTickets == {<<>>, <<Ticket(7)>>, <<Ticket(7), Ticket(8)>>}
StripeUrl == "https://checkout.stripe.com/c/pay"

\* CheckoutSessionResponse: checkout_url ("" when absent) and tickets.
PurchaseResults ==
    [checkout_url : {"", StripeUrl},
     tickets : {Undefined} \cup {TicketArray(ts) : ts \in SampleTickets}]

(***************************************************************************)
(* The event page: frontend/app/events/[id]/event-detail-content.tsx.      *)
(***************************************************************************)
\* useEvent's data and error for the page's event id.
EventData == queryData[page.id]
EventError == page.id \in queryError
\* isLoading: the first fetch has not answered.
eventLoading == EventData = Null /\ ~EventError

\* What EventDetailPageInner returns.
EventView ==
    IF page.name # "event" THEN "none"
    ELSE IF EventError THEN "Event Not Found"
    ELSE IF eventLoading THEN "skeleton"
    ELSE IF EventData # Null THEN "tickets"
    ELSE "none"

\* {selectedTier && (...)}: quantity picker, promo input, price summary, form.
PanelShown == EventView = "tickets" /\ selectedTier # Null

\* TierCard: isSoldOut, the button's disabled.
isSoldOut_StatusOnly(tier) == tier.status = "SOLD_OUT"

isSoldOut(tier) == tier.status = "SOLD_OUT" \/ tier.tickets_remaining = 0

\* No handler is running (an event handler runs to completion).
Idle == handler.pc = "idle"

InFlight(p) == purchases[p]
PurchasesInFlight == InFlight("event") + InFlight("checkout")

\* The data of useEvent arrives (the first fetch, a refetch on mount or the
\* 15 s refetchInterval), and the effect stores it with setEvent.
FetchSuccess ==
    /\ Idle
    /\ page.name = "event"
    /\ \E data \in ServerEvents(page.id) :
          /\ queryData' = [queryData EXCEPT ![page.id] = data]
          /\ setEvent(data)
    /\ queryError' = queryError \ {page.id}
    /\ lastClick' = Null
    /\ posted' = Null
    /\ UNCHANGED <<page, mounted, promoInFlight, purchases, handler>>
    /\ UNCHANGED <<lastCall, apiVars, adminVars>>

\* The fetch fails: the page returns "Event Not Found".
FetchError ==
    /\ Idle
    /\ page.name = "event"
    /\ queryError' = queryError \cup {page.id}
    /\ UNCHANGED promoInFlight
    /\ lastClick' = Null
    /\ posted' = Null
    /\ UNCHANGED <<page, mounted, queryData, purchases, handler>>
    /\ UNCHANGED <<storeVars, lastCall, apiVars, adminVars>>

\* A click on the i-th TierCard of the selector: onSelect unless disabled.
ClickTierCard ==
    /\ Idle
    /\ EventView = "tickets"
    /\ \E i \in 1 .. Len(EventData.ticket_tiers) :
          LET tier == EventData.ticket_tiers[i]
          IN  /\ lastClick' = tier
              /\ IF isSoldOut(tier) THEN UNCHANGED storeVars ELSE selectTier(tier)
    /\ posted' = Null
    /\ UNCHANGED <<page, mounted, queryData, queryError, promoInFlight,
                   purchases, handler>>
    /\ UNCHANGED <<lastCall, apiVars, adminVars>>

\* QuantityPicker's plus button, enabled while canIncrement.
ClickIncrement ==
    /\ Idle
    /\ PanelShown
    /\ canIncrement
    /\ incrementQuantity
    /\ lastClick' = Null
    /\ posted' = Null
    /\ UNCHANGED <<page, mounted, queryData, queryError, promoInFlight,
                   purchases, handler>>
    /\ UNCHANGED <<lastCall, apiVars, adminVars>>

\* QuantityPicker's minus button, enabled while canDecrement.
ClickDecrement ==
    /\ Idle
    /\ PanelShown
    /\ canDecrement
    /\ decrementQuantity
    /\ lastClick' = Null
    /\ posted' = Null
    /\ UNCHANGED <<page, mounted, queryData, queryError, promoInFlight,
                   purchases, handler>>
    /\ UNCHANGED <<lastCall, apiVars, adminVars>>

(***************************************************************************)
(* PromoInput (components/tickets/promo-input.tsx) on the event page.      *)
(***************************************************************************)
\* appliedPromo?.valid: the applied promo is shown instead of the input.
PromoApplied == promoValidation # Null /\ promoValidation.valid

PromoCodes == {"", "SAVE"}

\* handleApply: onValidate(code) requests the validation of the code for the
\* tier selected at that time. The Apply button is disabled while
\* isValidating, but Enter in the input calls handleApply all the same, so
\* the component's isValidating state stops no request and is not modelled.
PromoApply ==
    /\ Idle
    /\ PanelShown
    /\ ~PromoApplied
    /\ Cardinality(promoInFlight) < MaxInFlight
    /\ \E code \in PromoCodes :
          /\ ~(code = "" \/ selectedTier.id = 0)
          /\ promoInFlight' = promoInFlight \cup
                {[code |-> code, tier |-> selectedTier.id]}
    /\ lastClick' = Null
    /\ posted' = Null
    /\ UNCHANGED <<page, mounted, queryData, queryError, purchases, handler>>
    /\ UNCHANGED <<storeVars, lastCall, apiVars, adminVars>>

\* The validation answers: a valid result is applied with onApply, which is
\* the store's setPromoValidation (also when the PromoInput that asked has
\* unmounted); an invalid one or a failure sets the input's error.
PromoResponse ==
    /\ Idle
    /\ \E r \in promoInFlight, outcome \in {"valid", "invalid", "failed"} :
          /\ promoInFlight' = promoInFlight \ {r}
          /\ IF outcome = "valid"
               THEN setPromoValidation(PromoResult(TRUE, r.code, 10, r.tier))
               ELSE UNCHANGED storeVars
    /\ lastClick' = Null
    /\ posted' = Null
    /\ UNCHANGED <<page, mounted, queryData, queryError, purchases, handler>>
    /\ UNCHANGED <<lastCall, apiVars, adminVars>>

\* handleRemove: the X of the applied promo.
PromoRemove ==
    /\ Idle
    /\ PanelShown
    /\ PromoApplied
    /\ setPromoValidation(Null)
    /\ lastClick' = Null
    /\ posted' = Null
    /\ UNCHANGED <<page, mounted, queryData, queryError, promoInFlight,
                   purchases, handler>>
    /\ UNCHANGED <<lastCall, apiVars, adminVars>>

(***************************************************************************)
(* Purchases: handlePurchase of the event page, handleSubmit of the        *)
(* checkout page (app/checkout/checkout-content.tsx), usePurchaseMutation. *)
(***************************************************************************)
\* promoValidation?.code || undefined
PromoCodeOf(validation) ==
    IF validation = Null \/ validation.code = NoCode \/ validation.code = ""
      THEN NoCode
      ELSE validation.code

\* POST /api/tickets/events/{eventId}/purchase with a PurchaseRequest.
PurchaseRequest(from, eventId) ==
    [from |-> from, eventId |-> eventId, ticket_tier_id |-> selectedTier.id,
     quantity |-> quantity, promo_code |-> PromoCodeOf(promoValidation)]

\* result.tickets.map((t) => t.id).join(",")
RECURSIVE Join(_)
Join(ids) ==
    IF Len(ids) = 0 THEN ""
    ELSE IF Len(ids) = 1 THEN ToString(ids[1])
    ELSE ToString(ids[1]) \o "," \o Join(Tail(ids))

TicketIds(tickets) == Join([i \in 1 .. Len(tickets.items) |-> tickets.items[i].id])

SuccessPage(ticketIds) ==
    [name |-> "success", id |-> 0, url |-> "/success?tickets=" \o ticketIds]

\* window.location.href = url: the document is replaced, and with it every
\* component and every pending promise; the persisted store stays.
LeaveTo(url) ==
    /\ page' = ExternalPage(url)
    /\ mounted' = FALSE
    /\ promoInFlight' = {}
    /\ purchases' = NoneInFlight

\* router.push(url): the page's components unmount; promises stay pending.
\* The event page's effect stores the cached event on mount.
MountEffect(target) ==
    IF target.name = "event" /\ queryData[target.id] # Null
      THEN setEvent(queryData[target.id])
      ELSE UNCHANGED storeVars

\* The event page's form is submitted: handlePurchase(formData).
EventSubmit ==
    /\ Idle
    /\ PanelShown
    /\ PurchasesInFlight < MaxInFlight
    /\ selectedTier # Null
    /\ setBuyerInfo(FormData)
    /\ posted' = PurchaseRequest("event", page.id)
    /\ purchases' = [purchases EXCEPT !["event"] = @ + 1]
    /\ lastClick' = Null
    /\ UNCHANGED <<page, mounted, queryData, queryError, promoInFlight, handler>>
    /\ UNCHANGED <<lastCall, apiVars, adminVars>>

\* The event page's purchase answers.
EventPurchaseResponse ==
    /\ Idle
    /\ InFlight("event") > 0
    /\ \/ \* mutateAsync rejects: console.error
          /\ purchases' = [purchases EXCEPT !["event"] = @ - 1]
          /\ UNCHANGED <<page, mounted, promoInFlight, storeVars>>
       \/ \E result \in PurchaseResults :
             IF result.checkout_url # ""
               THEN LeaveTo(result.checkout_url) /\ UNCHANGED storeVars
             ELSE IF result.tickets # Undefined
               THEN /\ page' = SuccessPage(TicketIds(result.tickets))
                    /\ mounted' = FALSE
                    /\ UNCHANGED promoInFlight
                    /\ purchases' = [purchases EXCEPT !["event"] = @ - 1]
                    /\ UNCHANGED storeVars
             ELSE /\ purchases' = [purchases EXCEPT !["event"] = @ - 1]
                  /\ UNCHANGED <<page, mounted, promoInFlight, storeVars>>
    /\ lastClick' = Null
    /\ posted' = Null
    /\ UNCHANGED <<queryData, queryError, handler>>
    /\ UNCHANGED <<lastCall, apiVars, adminVars>>

(***************************************************************************)
(* The checkout page: CheckoutPageInner.                                   *)
(***************************************************************************)
CheckoutView_NoCartCheck ==
    IF page.name # "checkout" THEN "none"
    ELSE IF ~mounted THEN "Loading..."
    ELSE "form"

\* What CheckoutPageInner returns.
CheckoutView ==
    IF page.name # "checkout" THEN "none"
    ELSE IF ~mounted THEN "Loading..."
    ELSE IF event = Null \/ selectedTier = Null THEN "Your cart is empty"
    ELSE "form"

\* useEffect(() => setMounted(true), [])
CheckoutMount ==
    /\ Idle
    /\ page.name = "checkout"
    /\ ~mounted
    /\ mounted' = TRUE
    /\ lastClick' = Null
    /\ posted' = Null
    /\ UNCHANGED <<page, queryData, queryError, promoInFlight,
                   purchases, handler>>
    /\ UNCHANGED <<storeVars, lastCall, apiVars, adminVars>>

\* usePurchaseMutation(event?.id || 0)
CheckoutEventId == IF event = Null THEN 0 ELSE event.id

\* The checkout page's form is submitted: handleSubmit(formData).
CheckoutSubmit ==
    /\ Idle
    /\ CheckoutView = "form"
    /\ PurchasesInFlight < MaxInFlight
    /\ ~(selectedTier = Null \/ event = Null)
    /\ setBuyerInfo(FormData)
    /\ posted' = PurchaseRequest("checkout", CheckoutEventId)
    /\ purchases' = [purchases EXCEPT !["checkout"] = @ + 1]
    /\ lastClick' = Null
    /\ UNCHANGED <<page, mounted, queryData, queryError, promoInFlight, handler>>
    /\ UNCHANGED <<lastCall, apiVars, adminVars>>

\* The checkout page's purchase answers. With tickets and no checkout_url the
\* handler computes ticketIds and goes on to clearCheckout() and router.push.
CheckoutPurchaseResponse ==
    /\ Idle
    /\ InFlight("checkout") > 0
    /\ \/ \* mutateAsync rejects: console.error
          /\ purchases' = [purchases EXCEPT !["checkout"] = @ - 1]
          /\ UNCHANGED <<page, mounted, promoInFlight, handler>>
       \/ \E result \in PurchaseResults :
             IF result.checkout_url # ""
               THEN LeaveTo(result.checkout_url) /\ UNCHANGED handler
             ELSE IF result.tickets # Undefined
               THEN /\ handler' = [pc |-> "clearCheckout", result |-> result,
                                   ticketIds |-> TicketIds(result.tickets)]
                    /\ purchases' = [purchases EXCEPT !["checkout"] = @ - 1]
                    /\ UNCHANGED <<page, mounted, promoInFlight>>
             ELSE /\ purchases' = [purchases EXCEPT !["checkout"] = @ - 1]
                  /\ UNCHANGED <<page, mounted, promoInFlight, handler>>
    /\ lastClick' = Null
    /\ posted' = Null
    /\ UNCHANGED <<queryData, queryError>>
    /\ UNCHANGED <<storeVars, lastCall, apiVars, adminVars>>

\* handleSubmit, free tickets: clearCheckout().
HandlerClearCheckout ==
    /\ handler.pc = "clearCheckout"
    /\ clearCheckout
    /\ handler' = [handler EXCEPT !.pc = "router.push"]
    /\ UNCHANGED promoInFlight
    /\ lastClick' = Null
    /\ posted' = Null
    /\ UNCHANGED <<page, mounted, queryData, queryError, purchases>>
    /\ UNCHANGED <<lastCall, apiVars, adminVars>>

\* handleSubmit, free tickets: router.push(`/success?tickets=${ticketIds}`).
HandlerPush ==
    /\ handler.pc = "router.push"
    /\ page' = SuccessPage(handler.ticketIds)
    /\ mounted' = FALSE
    /\ handler' = [pc |-> "idle"]
    /\ UNCHANGED promoInFlight
    /\ lastClick' = Null
    /\ posted' = Null
    /\ UNCHANGED <<queryData, queryError, purchases>>
    /\ UNCHANGED <<storeVars, lastCall, apiVars, adminVars>>

(***************************************************************************)
(* Navigation: the header's links, the back links, the address bar.        *)
(***************************************************************************)
Routes == {EventsPage, CheckoutPage} \cup {EventPage(e) : e \in EventIds}

Navigate ==
    /\ Idle
    /\ \E target \in Routes :
          /\ page' = target
          /\ MountEffect(target)
    /\ mounted' = FALSE
    /\ UNCHANGED promoInFlight
    /\ lastClick' = Null
    /\ posted' = Null
    /\ UNCHANGED <<queryData, queryError, purchases, handler>>
    /\ UNCHANGED <<lastCall, apiVars, adminVars>>

Next ==
    \/ Navigate
    \/ FetchSuccess
    \/ FetchError
    \/ ClickTierCard
    \/ ClickIncrement
    \/ ClickDecrement
    \/ PromoApply
    \/ PromoResponse
    \/ PromoRemove
    \/ EventSubmit
    \/ EventPurchaseResponse
    \/ CheckoutMount
    \/ CheckoutSubmit
    \/ CheckoutPurchaseResponse
    \/ HandlerClearCheckout
    \/ HandlerPush

Init ==
    /\ StoreInit
    /\ lastCall = [op |-> "create"]
    /\ AppInit
    /\ ApiIdle
    /\ AdminInit

Spec == Init /\ [][Next]_vars

(***************************************************************************)
(* Claims about the application.                                           *)
(***************************************************************************)
\* The store as clearCheckout is said to leave it.
StoreCleared ==
    /\ event = Null
    /\ selectedTier = Null
    /\ quantity = 1
    /\ promoCode = NoCode
    /\ promoValidation = Null
    /\ buyerInfo = [name |-> "", email |-> "", phone |-> ""]

\* The tickets parameter of the success URL, for each sample response.
C4_TicketsParam ==
    (<<>> :> "") @@ (<<Ticket(7)>> :> "7") @@ (<<Ticket(7), Ticket(8)>> :> "7,8")

\* C4: on the checkout page a response with tickets and no checkout_url has
\* its ticket ids joined first, then the store is cleared, then the app
\* navigates to /success?tickets=<the ids of the response>.
C4_FreeTickets ==
    [][/\ (handler.pc = "idle" /\ handler'.pc # "idle") =>
             /\ handler'.pc = "clearCheckout"
             /\ handler'.result.checkout_url = ""
             /\ handler'.result.tickets # Undefined
             /\ handler'.ticketIds = C4_TicketsParam[handler'.result.tickets.items]
             /\ UNCHANGED <<storeVars, page>>
       /\ handler.pc = "clearCheckout" =>
             /\ handler'.pc = "router.push"
             /\ StoreCleared'
             /\ UNCHANGED page
       /\ handler.pc = "router.push" =>
             /\ handler'.pc = "idle"
             /\ StoreCleared /\ StoreCleared'
             /\ page'.name = "success"
             /\ page'.url = "/success?tickets="
                               \o C4_TicketsParam[handler.result.tickets.items]]_vars

\* A response with tickets 7 and 8: the store that held an order is cleared,
\* and the handler is about to navigate.
C4_Witness ==
    /\ handler.pc = "router.push"
    /\ handler.ticketIds = "7,8"
    /\ StoreCleared
    /\ page.name = "checkout"

\* C5: a click on the card of a tier that is SOLD_OUT or has no tickets left
\* does not call selectTier: the store's selection stays as it is.
C5_SoldOutNotSelectable ==
    [][(/\ lastClick' # Null
        /\ (lastClick'.status = "SOLD_OUT" \/ lastClick'.tickets_remaining = 0)) =>
            UNCHANGED <<selectedTier, quantity, promoCode, promoValidation>>]_vars

\* The card of a tier without tickets was clicked while another tier was
\* selected, with a quantity and a promo that a selectTier would have reset.
C5_Witness ==
    /\ lastClick # Null
    /\ lastClick.status = "ACTIVE"
    /\ lastClick.tickets_remaining = 0
    /\ selectedTier # Null
    /\ selectedTier.id # lastClick.id
    /\ promoValidation # Null

C8_TierOfEvent ==
    /\ (event # Null /\ selectedTier # Null) => selectedTier.event_id = event.id
    /\ posted # Null => TierEvent(posted.ticket_tier_id) = posted.eventId

\* C9: a promo in the store was validated for the tier now selected.
C9_PromoOfSelectedTier ==
    promoValidation # Null =>
        (selectedTier # Null /\ promoValidation.forTier = selectedTier.id)

\* The tiers of the stored event that have the given id.
C11_StoredTiers(tierId) ==
    {i \in 1 .. Len(event.ticket_tiers) : event.ticket_tiers[i].id = tierId}

\* C11: a purchase never asks for more tickets than are known to remain: the
\* quantity of a request posted from the event page is at most the
\* tickets_remaining of the requested tier in the event most recently stored
\* by setEvent.
C11_QuantityKnownToRemain ==
    (posted # Null /\ posted.from = "event") =>
        /\ event # Null
        /\ \A i \in C11_StoredTiers(posted.ticket_tier_id) :
              posted.quantity <= event.ticket_tiers[i].tickets_remaining

====
